---- MODULE Spec2Model ----
(***************************************************************************)
(* Control core of the Duplo Lego Car (ESP8266): main.cpp setup()/loop(),  *)
(* MQTT::Begin/callback/Loop, Nunchuck::Loop, Laser::Loop and              *)
(* Motors::Begin/setMapped, with the two LOLIN I2C motor shields as the    *)
(* actuator state.                                                         *)
(***************************************************************************)
EXTENDS Integers, Sequences, FiniteSets, TLC

VARIABLES
    pc,                   \* position of the single thread in setup()/loop()
    roundingMap,          \* build: TRUE when the Arduino core's map() rounds
    subscribed,           \* MQTT::Begin connected and set the callback
    motorXY,              \* MQTT::motorXY, the remote intent buffer
    returnValue,          \* the struct returned by the last MQTT::Loop()
    loopMotorXY,          \* loop()'s local motorXY
    nunchuck_buf,         \* Nunchuck::nunchuck_buf[0..1] (joystick bytes)
    laserRangeMilliMeter, \* loop()'s local laserRangeMilliMeter
    leftMotors,           \* left LOLIN_I2C_MOTOR: PRODUCT_ID, freq, duty, status
    rightMotors,          \* right LOLIN_I2C_MOTOR
    Duty,                 \* setMapped's local Duty, as logged on line 155
    Direction,            \* setMapped's local Direction
    published,            \* labels sent to MQTT_DIRECTION_TOPIC by the last call
    issued,               \* shield commands sent by the last setMapped call
    cnt,                  \* bytes read by the last nunchuck_get_data
    message,              \* message handed to MQTT::callback (in a cycle: last valid one)
    delivered,            \* buffer values the callbacks wrote (in a cycle: this cycle's)
    earlier,              \* arguments and effects of an earlier setMapped call
    cycleSteps            \* what loop() has called so far in this cycle

vars == <<pc, roundingMap, subscribed, motorXY, returnValue, loopMotorXY,
          nunchuck_buf, laserRangeMilliMeter, leftMotors, rightMotors,
          Duty, Direction, published, issued, cnt, message, delivered,
          earlier, cycleSteps>>

(***************************************************************************)
(* Program constants (Motors::setMapped, laser.h).                         *)
(***************************************************************************)
maxDuty == 50
maxRotationDuty == 50
SafeDistanceMM == 300
DeadzoneMM == 60
minimumDuty == 16
INT_MAX == 2147483647
PwmFreq == 1000

(***************************************************************************)
(* Bounds of the model.                                                    *)
(***************************************************************************)
\* largest ordinary range reading drawn for a direct call of setMapped
MaxRangeMM == 303
\* range readings below zero drawn for a direct call: -NegRangeMM .. -1
NegRangeMM == 2
\* intent arguments drawn for a direct call: -MaxIntent .. MaxIntent
MaxIntent == 2

\* range readings sampled by the control loop
LaserSamples == {30, 180, 500, INT_MAX}
\* joystick bytes delivered by the nunchuck in the control loop
JoySamples == {0, 128, 255}
\* stick deflections carried by remote control messages
StickSamples == {-11, 0, 11}

RangeInputs == ((0 - NegRangeMM) .. MaxRangeMM) \cup {INT_MAX}
IntentInputs == (0 - MaxIntent) .. MaxIntent

NoXY == [motor_x |-> 0, motor_y |-> 0, fromMQTT |-> FALSE]

\* no message is being handed to the callback; no earlier call is recorded
NoMessage == [topic |-> "", hasX |-> FALSE, x |-> 0, y |-> 0]
NoCall ==
    [valid |-> FALSE, between |-> FALSE,
     mapx |-> 0, mapy |-> 0, range |-> 0, Duty |-> 0,
     issued |-> <<>>, published |-> <<>>,
     left |-> [duty |-> 0, status |-> "STOP"],
     right |-> [duty |-> 0, status |-> "STOP"]]

(***************************************************************************)
(* C integer division (truncation toward zero).                            *)
(***************************************************************************)
CDiv(a, b) ==
    IF (a >= 0) = (b > 0) THEN a \div b
    ELSE 0 - ((0 - a) \div b)

(***************************************************************************)
(* Arduino map().  The classic core computes                               *)
(*   (x - in_min) * (out_max - out_min) / (in_max - in_min) + out_min      *)
(* and the ESP8266 core since 2.7 adds divisor/2 before dividing.          *)
(***************************************************************************)
map(x, in_min, in_max, out_min, out_max) ==
    LET dividend == out_max - out_min
        divisor == in_max - in_min
        delta == x - in_min
    IN  IF roundingMap
        THEN CDiv(delta * dividend + CDiv(divisor, 2), divisor) + out_min
        ELSE CDiv(delta * dividend, divisor) + out_min

(***************************************************************************)
(* Motors::setMapped, lines 138-151: the range-derived duty.               *)
(***************************************************************************)
PlanDutyOpenDeadzone(range) ==
    IF range > SafeDistanceMM
    THEN maxDuty
    ELSE IF range <= SafeDistanceMM /\ range > DeadzoneMM
         THEN map(range, DeadzoneMM, SafeDistanceMM, minimumDuty, maxDuty)
         ELSE 0

PlanDutySwappedOut(range) ==
    IF range > SafeDistanceMM
    THEN maxDuty
    ELSE IF range <= SafeDistanceMM /\ range >= DeadzoneMM
         THEN map(range, DeadzoneMM, SafeDistanceMM, maxDuty, minimumDuty)
         ELSE 0

PlanDutyRampToFull(range) ==
    IF range > SafeDistanceMM
    THEN maxDuty
    ELSE IF range <= SafeDistanceMM /\ range >= DeadzoneMM
         THEN map(range, DeadzoneMM, SafeDistanceMM, minimumDuty, 2 * maxDuty)
         ELSE 0

PlanDuty(range) ==
    IF range > SafeDistanceMM
    THEN maxDuty
    ELSE IF range <= SafeDistanceMM /\ range >= DeadzoneMM
         THEN map(range, DeadzoneMM, SafeDistanceMM, minimumDuty, maxDuty)
         ELSE 0

(***************************************************************************)
(* LOLIN_I2C_MOTOR::changeDuty / changeStatus on MOTOR_CH_BOTH: the shield *)
(* keeps the last value written to each register.                          *)
(***************************************************************************)
changeDuty(m, d) == [m EXCEPT !.duty = d]
changeStatus(m, s) == [m EXCEPT !.status = s]
changeFreq(m, f) == [m EXCEPT !.freq = f]

(***************************************************************************)
(* Motors::setMapped, lines 158-239: the bodies of the nine branches.  L   *)
(* and R are the shields before the call, D the range-derived Duty; each   *)
(* result holds the shields after the branch and the local Direction.      *)
(***************************************************************************)
maxTurnDuty == CDiv(maxDuty, 2)

NorthKeepDuty(D, L, R) ==
    [left |-> changeStatus(L, "CW"),
     right |-> changeStatus(R, "CW"),
     Direction |-> "NORTH"]

North(D, L, R) ==
    [left |-> changeStatus(changeDuty(L, D), "CW"),
     right |-> changeStatus(changeDuty(R, D), "CW"),
     Direction |-> "NORTH"]

NorthEast(D, L, R) ==
    [left |-> changeStatus(changeDuty(L, maxDuty), "CW"),
     right |-> changeStatus(changeDuty(R, maxTurnDuty), "CW"),
     Direction |-> "NORTH EAST"]

EastTurnDuty(D, L, R) ==
    [left |-> changeStatus(changeDuty(L, maxTurnDuty), "CW"),
     right |-> changeStatus(changeDuty(R, maxTurnDuty), "CCW"),
     Direction |-> "EAST"]

East(D, L, R) ==
    [left |-> changeStatus(changeDuty(L, maxRotationDuty), "CW"),
     right |-> changeStatus(changeDuty(R, maxRotationDuty), "CCW"),
     Direction |-> "EAST"]

SouthEast(D, L, R) ==
    [left |-> changeStatus(changeDuty(L, maxDuty), "CCW"),
     right |-> changeStatus(changeDuty(R, maxTurnDuty), "CCW"),
     Direction |-> "SOUTH EAST"]

South(D, L, R) ==
    [left |-> changeStatus(changeDuty(L, maxDuty), "CCW"),
     right |-> changeStatus(changeDuty(R, maxDuty), "CCW"),
     Direction |-> "SOUTH"]

SouthWest(D, L, R) ==
    [left |-> changeStatus(changeDuty(L, maxTurnDuty), "CCW"),
     right |-> changeStatus(changeDuty(R, maxDuty), "CCW"),
     Direction |-> "SOUTH WEST"]

West(D, L, R) ==
    [left |-> changeStatus(changeDuty(L, maxRotationDuty), "CCW"),
     right |-> changeStatus(changeDuty(R, maxRotationDuty), "CW"),
     Direction |-> "WEST"]

NorthWest(D, L, R) ==
    [left |-> changeStatus(changeDuty(L, maxTurnDuty), "CW"),
     right |-> changeStatus(changeDuty(R, maxDuty), "CW"),
     Direction |-> "NORTH WEST"]

StopLeftOnly(D, L, R) ==
    [left |-> changeStatus(L, "STOP"),
     right |-> R,
     Direction |-> "STOP"]

Stop(D, L, R) ==
    [left |-> changeStatus(L, "STOP"),
     right |-> changeStatus(R, "STOP"),
     Direction |-> "STOP"]

(***************************************************************************)
(* Motors::setMapped, lines 158-239: the if / else-if chain over           *)
(* (mapx, mapy) that selects the branch.                                   *)
(***************************************************************************)
MappedOutputNoDiagonalWest(mapx, mapy, D, L, R) ==
    IF mapx = 0 /\ mapy = 1 THEN North(D, L, R)
    ELSE IF mapx = 1 /\ mapy = 1 THEN NorthEast(D, L, R)
    ELSE IF mapx = 1 /\ mapy = 0 THEN East(D, L, R)
    ELSE IF mapx = 1 /\ mapy = -1 THEN SouthEast(D, L, R)
    ELSE IF mapx = 0 /\ mapy = -1 THEN South(D, L, R)
    ELSE IF mapx = -1 /\ mapy = 0 THEN West(D, L, R)
    ELSE IF mapx = -1 /\ mapy = -1 THEN SouthWest(D, L, R)
    ELSE IF mapx = -1 THEN West(D, L, R)
    ELSE Stop(D, L, R)

MappedOutput(mapx, mapy, D, L, R) ==
    IF mapx = 0 /\ mapy = 1 THEN North(D, L, R)
    ELSE IF mapx = 1 /\ mapy = 1 THEN NorthEast(D, L, R)
    ELSE IF mapx = 1 /\ mapy = 0 THEN East(D, L, R)
    ELSE IF mapx = 1 /\ mapy = -1 THEN SouthEast(D, L, R)
    ELSE IF mapx = 0 /\ mapy = -1 THEN South(D, L, R)
    ELSE IF mapx = -1 /\ mapy = -1 THEN SouthWest(D, L, R)
    ELSE IF mapx = -1 /\ mapy = 0 THEN West(D, L, R)
    ELSE IF mapx = -1 /\ mapy = 1 THEN NorthWest(D, L, R)
    ELSE Stop(D, L, R)

(***************************************************************************)
(* Motors::setMapped, lines 158-239: the I2C commands of each branch in    *)
(* the order the branch sends them, as <<shield, command, value>>.         *)
(***************************************************************************)
DriveCommands(dl, dr, sl, sr) ==
    <<<<"left", "changeDuty", dl>>, <<"right", "changeDuty", dr>>,
      <<"left", "changeStatus", sl>>, <<"right", "changeStatus", sr>>>>

IssuedCommands(dir, D) ==
    CASE dir = "NORTH" -> DriveCommands(D, D, "CW", "CW")
      [] dir = "NORTH EAST" -> DriveCommands(maxDuty, maxTurnDuty, "CW", "CW")
      [] dir = "EAST" ->
            DriveCommands(maxRotationDuty, maxRotationDuty, "CW", "CCW")
      [] dir = "SOUTH EAST" ->
            DriveCommands(maxDuty, maxTurnDuty, "CCW", "CCW")
      [] dir = "SOUTH" -> DriveCommands(maxDuty, maxDuty, "CCW", "CCW")
      [] dir = "SOUTH WEST" ->
            DriveCommands(maxTurnDuty, maxDuty, "CCW", "CCW")
      [] dir = "WEST" ->
            DriveCommands(maxRotationDuty, maxRotationDuty, "CCW", "CW")
      [] dir = "NORTH WEST" -> DriveCommands(maxTurnDuty, maxDuty, "CW", "CW")
      [] OTHER -> <<<<"left", "changeStatus", "STOP">>,
                    <<"right", "changeStatus", "STOP">>>>

(***************************************************************************)
(* Motors::setMapped as a whole: duty planning, the direction chain and    *)
(* the telemetry publication of lines 241-245.                             *)
(***************************************************************************)
setMappedPublishAlways(mapx, mapy, range) ==
    LET D == PlanDuty(range)
        out == MappedOutput(mapx, mapy, D, leftMotors, rightMotors)
    IN  /\ Duty' = D
        /\ issued' = IssuedCommands(out.Direction, D)
        /\ leftMotors' = out.left
        /\ rightMotors' = out.right
        /\ Direction' = out.Direction
        /\ published' = <<out.Direction>>

setMappedSkipRepeatedStop(mapx, mapy, range) ==
    LET D == PlanDuty(range)
        out == MappedOutput(mapx, mapy, D, leftMotors, rightMotors)
    IN  /\ Duty' = D
        /\ issued' = IF out.Direction = "STOP" /\ leftMotors.status = "STOP"
                     THEN <<>>
                     ELSE IssuedCommands(out.Direction, D)
        /\ leftMotors' = out.left
        /\ rightMotors' = out.right
        /\ Direction' = out.Direction
        /\ published' = IF out.Direction # "STOP"
                        THEN <<out.Direction>>
                        ELSE <<>>

setMapped(mapx, mapy, range) ==
    LET D == PlanDuty(range)
        out == MappedOutput(mapx, mapy, D, leftMotors, rightMotors)
    IN  /\ Duty' = D
        /\ issued' = IssuedCommands(out.Direction, D)
        /\ leftMotors' = out.left
        /\ rightMotors' = out.right
        /\ Direction' = out.Direction
        /\ published' = IF out.Direction # "STOP"
                        THEN <<out.Direction>>
                        ELSE <<>>

(***************************************************************************)
(* The shields.  At power-up the registers hold duty 0 / STOP; a direct    *)
(* call of setMapped may also find the registers an earlier NORTH call     *)
(* left (ShieldStates).                                                    *)
(***************************************************************************)
PRODUCT_ID_I2C_MOTOR == 2

PowerUpShield == [duty |-> 0, status |-> "STOP"]

ShieldStates == {PowerUpShield, [duty |-> maxDuty, status |-> "CW"]}

NewShield(st) ==
    [PRODUCT_ID |-> 0, freq |-> 0, duty |-> st.duty, status |-> st.status,
     answers |-> TRUE]

\* a shield that is absent from the bus or never answers getInfo
SilentShield(st) == [NewShield(st) EXCEPT !.answers = FALSE]

ReadyShield(st) ==
    [PRODUCT_ID |-> PRODUCT_ID_I2C_MOTOR, freq |-> PwmFreq,
     duty |-> st.duty, status |-> st.status, answers |-> TRUE]

(***************************************************************************)
(* MQTT::Begin: resets the buffer; the callback is set and the control     *)
(* topic subscribed only when WiFi and the broker are reachable.           *)
(***************************************************************************)
MqttBegin ==
    /\ pc = "setup"
    /\ motorXY' = NoXY
    /\ subscribed' \in BOOLEAN
    /\ pc' = "beginLeft"
    /\ UNCHANGED <<roundingMap, returnValue, loopMotorXY, nunchuck_buf,
                   laserRangeMilliMeter, leftMotors, rightMotors, Duty,
                   Direction, published,
                   issued, cnt, message, delivered, earlier, cycleSteps>>

(***************************************************************************)
(* Motors::Begin: the two wait loops and the frequency set-up.  getInfo    *)
(* either reads the product id or leaves the field as it was; with a       *)
(* shield that never answers it always leaves it.                          *)
(***************************************************************************)
getInfo(m) ==
    {m} \cup (IF m.answers
              THEN {[m EXCEPT !.PRODUCT_ID = PRODUCT_ID_I2C_MOTOR]}
              ELSE {})

BeginRightNoWait ==
    /\ pc = "beginRight"
    /\ rightMotors' = rightMotors
    /\ pc' = "changeFreq"
    /\ UNCHANGED <<roundingMap, subscribed, motorXY, returnValue, loopMotorXY,
                   nunchuck_buf, laserRangeMilliMeter, leftMotors, Duty,
                   Direction, published,
                   issued, cnt, message, delivered, earlier, cycleSteps>>

BeginLeft ==
    /\ pc = "beginLeft"
    /\ \/ /\ leftMotors.PRODUCT_ID # PRODUCT_ID_I2C_MOTOR
          /\ leftMotors' \in getInfo(leftMotors)
          /\ pc' = pc
       \/ /\ leftMotors.PRODUCT_ID = PRODUCT_ID_I2C_MOTOR
          /\ leftMotors' = leftMotors
          /\ pc' = "beginRight"
    /\ UNCHANGED <<roundingMap, subscribed, motorXY, returnValue, loopMotorXY,
                   nunchuck_buf, laserRangeMilliMeter, rightMotors, Duty,
                   Direction, published,
                   issued, cnt, message, delivered, earlier, cycleSteps>>

BeginRight ==
    /\ pc = "beginRight"
    /\ \/ /\ rightMotors.PRODUCT_ID # PRODUCT_ID_I2C_MOTOR
          /\ rightMotors' \in getInfo(rightMotors)
          /\ pc' = pc
       \/ /\ rightMotors.PRODUCT_ID = PRODUCT_ID_I2C_MOTOR
          /\ rightMotors' = rightMotors
          /\ pc' = "changeFreq"
    /\ UNCHANGED <<roundingMap, subscribed, motorXY, returnValue, loopMotorXY,
                   nunchuck_buf, laserRangeMilliMeter, leftMotors, Duty,
                   Direction, published,
                   issued, cnt, message, delivered, earlier, cycleSteps>>

BeginChangeFreq ==
    /\ pc = "changeFreq"
    /\ leftMotors' = changeFreq(leftMotors, PwmFreq)
    /\ rightMotors' = changeFreq(rightMotors, PwmFreq)
    /\ pc' = "mqttLoop"
    /\ UNCHANGED <<roundingMap, subscribed, motorXY, returnValue, loopMotorXY,
                   nunchuck_buf, laserRangeMilliMeter, Duty, Direction,
                   published,
                   issued, cnt, message, delivered, earlier, cycleSteps>>

(***************************************************************************)
(* MQTT::callback.  A message is its topic, whether the JSON document      *)
(* holds the key left_x_mapped, and the two stick values (a missing        *)
(* left_y_mapped converts to 0).                                           *)
(***************************************************************************)
Messages ==
    [topic : {"control", "other"}, hasX : BOOLEAN,
     x : StickSamples, y : StickSamples]

CallbackResultResetOnMalformed(msg, buf) ==
    IF msg.topic = "control" /\ msg.hasX
    THEN [motor_x |-> IF msg.x > 10 THEN 1
                      ELSE IF msg.x < -10 THEN -1 ELSE 0,
          motor_y |-> IF msg.y > 10 THEN -1
                      ELSE IF msg.y < -10 THEN 1 ELSE 0,
          fromMQTT |-> TRUE]
    ELSE NoXY

CallbackResultClosedBand(msg, buf) ==
    IF msg.topic = "control" /\ msg.hasX
    THEN [motor_x |-> IF msg.x >= 10 THEN 1
                      ELSE IF msg.x <= -10 THEN -1 ELSE 0,
          motor_y |-> IF msg.y >= 10 THEN -1
                      ELSE IF msg.y <= -10 THEN 1 ELSE 0,
          fromMQTT |-> TRUE]
    ELSE buf

CallbackResultKeepsAxis(msg, buf) ==
    IF msg.topic = "control" /\ msg.hasX
    THEN [motor_x |-> IF msg.x > 10 THEN 1
                      ELSE IF msg.x < -10 THEN -1 ELSE buf.motor_x,
          motor_y |-> IF msg.y > 10 THEN -1
                      ELSE IF msg.y < -10 THEN 1 ELSE buf.motor_y,
          fromMQTT |-> TRUE]
    ELSE buf

CallbackResult(msg, buf) ==
    IF msg.topic = "control" /\ msg.hasX
    THEN [motor_x |-> IF msg.x > 10 THEN 1
                      ELSE IF msg.x < -10 THEN -1 ELSE 0,
          motor_y |-> IF msg.y > 10 THEN -1
                      ELSE IF msg.y < -10 THEN 1 ELSE 0,
          fromMQTT |-> TRUE]
    ELSE buf

LoopPcs == {"mqttLoop", "fallback", "laser", "setMapped", "delay"}

callback ==
    /\ subscribed
    /\ pc \in LoopPcs
    /\ \E msg \in Messages : motorXY' = CallbackResult(msg, motorXY)
    /\ UNCHANGED <<pc, roundingMap, subscribed, returnValue, loopMotorXY,
                   nunchuck_buf, laserRangeMilliMeter, leftMotors,
                   rightMotors, Duty, Direction, published,
                   issued, cnt, message, delivered, earlier, cycleSteps>>

(***************************************************************************)
(* MQTT::Loop: copy the buffer, clear it, return the copy.                 *)
(***************************************************************************)
LoopMqttKeepsBuffer ==
    /\ pc = "mqttLoop"
    /\ returnValue' = motorXY
    /\ loopMotorXY' = motorXY
    /\ motorXY' = motorXY
    /\ cycleSteps' = Append(cycleSteps, "mqtt.Loop")
    /\ pc' = "fallback"
    /\ UNCHANGED <<roundingMap, subscribed, nunchuck_buf,
                   laserRangeMilliMeter, leftMotors, rightMotors, Duty,
                   Direction, published,
                   issued, cnt, message, delivered, earlier>>

LoopMqttNoFallback ==
    /\ pc = "mqttLoop"
    /\ returnValue' = motorXY
    /\ loopMotorXY' = motorXY
    /\ motorXY' = NoXY
    /\ cycleSteps' = Append(cycleSteps, "mqtt.Loop")
    /\ pc' = "laser"
    /\ UNCHANGED <<roundingMap, subscribed, nunchuck_buf,
                   laserRangeMilliMeter, leftMotors, rightMotors, Duty,
                   Direction, published,
                   issued, cnt, message, delivered, earlier>>

LoopMqtt ==
    /\ pc = "mqttLoop"
    /\ returnValue' = motorXY
    /\ loopMotorXY' = motorXY
    /\ motorXY' = NoXY
    /\ cycleSteps' = Append(cycleSteps, "mqtt.Loop")
    /\ pc' = "fallback"
    /\ UNCHANGED <<roundingMap, subscribed, nunchuck_buf,
                   laserRangeMilliMeter, leftMotors, rightMotors, Duty,
                   Direction, published,
                   issued, cnt, message, delivered, earlier>>

(***************************************************************************)
(* Nunchuck::Loop: nunchuck_get_data overwrites the buffer with the bytes  *)
(* the controller delivered (none when it did not answer), then both       *)
(* joystick bytes go through map(.., 0, 255, -1, 1).                       *)
(***************************************************************************)
NunchuckXYMidpoint(buf) ==
    [motor_x |-> IF buf[1] < 128 THEN -1 ELSE IF buf[1] = 128 THEN 0 ELSE 1,
     motor_y |-> IF buf[2] < 128 THEN -1 ELSE IF buf[2] = 128 THEN 0 ELSE 1,
     fromMQTT |-> FALSE]

NunchuckXY(buf) ==
    [motor_x |-> map(buf[1], 0, 255, -1, 1),
     motor_y |-> map(buf[2], 0, 255, -1, 1),
     fromMQTT |-> FALSE]

UseNunchuckAlways(xy) == TRUE

UseNunchuck(xy) == xy.fromMQTT = FALSE

NunchuckReads == {<<>>} \cup (JoySamples \X JoySamples)

NunchuckLoop(reads) ==
    \E data \in reads :
        LET buf == IF data = <<>> THEN nunchuck_buf ELSE data
        IN  /\ nunchuck_buf' = buf
            /\ cnt' = IF data = <<>> THEN 0 ELSE 6
            /\ loopMotorXY' = NunchuckXY(buf)

LoopNunchuck ==
    /\ pc = "fallback"
    /\ \/ /\ UseNunchuck(loopMotorXY)
          /\ NunchuckLoop(NunchuckReads)
          /\ cycleSteps' = Append(cycleSteps, "nunchuck.Loop")
       \/ /\ ~UseNunchuck(loopMotorXY)
          /\ UNCHANGED <<nunchuck_buf, loopMotorXY, cnt, cycleSteps>>
    /\ pc' = "laser"
    /\ UNCHANGED <<roundingMap, subscribed, motorXY, returnValue,
                   laserRangeMilliMeter, leftMotors, rightMotors, Duty,
                   Direction, published,
                   issued, message, delivered, earlier>>

(***************************************************************************)
(* Laser::Loop: a distance in millimetres, or INT_MAX when the             *)
(* measurement failed.                                                     *)
(***************************************************************************)
LoopLaser ==
    /\ pc = "laser"
    /\ laserRangeMilliMeter' \in LaserSamples
    /\ cycleSteps' = Append(cycleSteps, "laser.Loop")
    /\ pc' = "setMapped"
    /\ UNCHANGED <<roundingMap, subscribed, motorXY, returnValue, loopMotorXY,
                   nunchuck_buf, leftMotors, rightMotors, Duty, Direction,
                   published,
                   issued, cnt, message, delivered, earlier>>

LoopSetMapped ==
    /\ pc = "setMapped"
    /\ setMapped(loopMotorXY.motor_x, loopMotorXY.motor_y,
                 laserRangeMilliMeter)
    /\ cycleSteps' = Append(cycleSteps, "setMapped")
    /\ pc' = "delay"
    /\ UNCHANGED <<roundingMap, subscribed, motorXY, returnValue, loopMotorXY,
                   nunchuck_buf, laserRangeMilliMeter,
                   cnt, message, delivered, earlier>>

(***************************************************************************)
(* delay(50) and the end of loop(): the locals of the cycle are gone.      *)
(***************************************************************************)
LoopDelay ==
    /\ pc = "delay"
    /\ returnValue' = NoXY
    /\ loopMotorXY' = NoXY
    /\ laserRangeMilliMeter' = 0
    /\ Duty' = 0
    /\ Direction' = ""
    /\ published' = <<>>
    /\ issued' = <<>>
    /\ cnt' = 0
    /\ cycleSteps' = <<>>
    /\ message' = NoMessage
    /\ delivered' = {}
    /\ pc' = "mqttLoop"
    /\ UNCHANGED <<roundingMap, subscribed, motorXY, nunchuck_buf,
                   leftMotors, rightMotors, earlier>>

(***************************************************************************)
(* The program: the state after the global constructors, then setup() and  *)
(* loop() for ever, with remote messages arriving in between.              *)
(***************************************************************************)
Init ==
    /\ pc = "setup"
    /\ roundingMap \in BOOLEAN
    /\ subscribed = FALSE
    /\ motorXY = NoXY
    /\ returnValue = NoXY
    /\ loopMotorXY = NoXY
    /\ nunchuck_buf = <<0, 0>>
    /\ laserRangeMilliMeter = 0
    /\ leftMotors \in {NewShield(PowerUpShield), SilentShield(PowerUpShield)}
    /\ rightMotors \in {NewShield(PowerUpShield), SilentShield(PowerUpShield)}
    /\ Duty = 0
    /\ Direction = ""
    /\ published = <<>>
    /\ issued = <<>>
    /\ cnt = 0
    /\ message = NoMessage
    /\ delivered = {}
    /\ earlier = NoCall
    /\ cycleSteps = <<>>

Next ==
    \/ MqttBegin
    \/ BeginLeft
    \/ BeginRight
    \/ BeginChangeFreq
    \/ callback
    \/ LoopMqtt
    \/ LoopNunchuck
    \/ LoopLaser
    \/ LoopSetMapped
    \/ LoopDelay

Spec == Init /\ [][Next]_vars

(***************************************************************************)
(* setup() and loop() run on the one main task, which always takes its     *)
(* next step; the callback is the broker's doing and owes nothing.         *)
(***************************************************************************)
MainTask ==
    \/ MqttBegin
    \/ BeginLeft
    \/ BeginRight
    \/ BeginChangeFreq
    \/ LoopMqtt
    \/ LoopNunchuck
    \/ LoopLaser
    \/ LoopSetMapped
    \/ LoopDelay

SpecFair == Init /\ [][Next]_vars /\ WF_vars(MainTask)

(***************************************************************************)
(* Motors::setMapped called directly: every intent pair of IntentInputs    *)
(* and every range reading of RangeInputs, on shields that are ready.      *)
(***************************************************************************)
InitMapped ==
    /\ pc = "setMapped"
    /\ roundingMap \in BOOLEAN
    /\ subscribed = FALSE
    /\ motorXY = NoXY
    /\ returnValue = NoXY
    /\ loopMotorXY \in [motor_x : IntentInputs, motor_y : IntentInputs,
                        fromMQTT : {FALSE}]
    /\ nunchuck_buf = <<0, 0>>
    /\ laserRangeMilliMeter \in RangeInputs
    /\ \E st \in ShieldStates :
          /\ leftMotors = ReadyShield(st)
          /\ rightMotors = ReadyShield(st)
    /\ Duty = 0
    /\ Direction = ""
    /\ published = <<>>
    /\ issued = <<>>
    /\ cnt = 0
    /\ message = NoMessage
    /\ delivered = {}
    /\ earlier = NoCall
    /\ cycleSteps = <<>>

NextMapped == LoopSetMapped

SpecMapped == InitMapped /\ [][NextMapped]_vars

(***************************************************************************)
(* MQTT::callback called once with one message, on a buffer as the         *)
(* callback or MQTT::Loop left it.  The stick values of the message range  *)
(* over -MaxStick..MaxStick, on both sides of the dead-band.               *)
(***************************************************************************)
MaxStick == 12

StickInputs == (0 - MaxStick) .. MaxStick

CallbackMessages ==
    [topic : {"control", "other"}, hasX : BOOLEAN,
     x : StickInputs, y : StickInputs]

RemoteBuffers ==
    {NoXY} \cup [motor_x : {-1, 0, 1}, motor_y : {-1, 0, 1}, fromMQTT : {TRUE}]

InitCallback ==
    /\ pc = "callback"
    /\ roundingMap = FALSE
    /\ subscribed = TRUE
    /\ motorXY \in RemoteBuffers
    /\ returnValue = NoXY
    /\ loopMotorXY = NoXY
    /\ nunchuck_buf = <<0, 0>>
    /\ laserRangeMilliMeter = 0
    /\ leftMotors = ReadyShield(PowerUpShield)
    /\ rightMotors = ReadyShield(PowerUpShield)
    /\ Duty = 0
    /\ Direction = ""
    /\ published = <<>>
    /\ issued = <<>>
    /\ cnt = 0
    /\ message \in CallbackMessages
    /\ delivered = {}
    /\ earlier = NoCall
    /\ cycleSteps = <<>>

CallbackOnce ==
    /\ pc = "callback"
    /\ subscribed
    /\ motorXY' = CallbackResult(message, motorXY)
    /\ pc' = "returned"
    /\ UNCHANGED <<roundingMap, subscribed, returnValue, loopMotorXY,
                   nunchuck_buf, laserRangeMilliMeter, leftMotors,
                   rightMotors, Duty, Direction, published, issued, cnt,
                   message, delivered, earlier, cycleSteps>>

NextCallback == CallbackOnce

SpecCallback == InitCallback /\ [][NextCallback]_vars

(***************************************************************************)
(* Nunchuck::Loop called once; the controller delivers any two joystick    *)
(* bytes, or nothing.                                                      *)
(***************************************************************************)
JoyMax == 255

JoyBytes == 0 .. JoyMax

AllReads == {<<>>} \cup (JoyBytes \X JoyBytes)

InitNunchuck ==
    /\ pc = "nunchuck"
    /\ roundingMap \in BOOLEAN
    /\ subscribed = FALSE
    /\ motorXY = NoXY
    /\ returnValue = NoXY
    /\ loopMotorXY = NoXY
    /\ nunchuck_buf = <<0, 0>>
    /\ laserRangeMilliMeter = 0
    /\ leftMotors = ReadyShield(PowerUpShield)
    /\ rightMotors = ReadyShield(PowerUpShield)
    /\ Duty = 0
    /\ Direction = ""
    /\ published = <<>>
    /\ issued = <<>>
    /\ cnt = 0
    /\ message = NoMessage
    /\ delivered = {}
    /\ earlier = NoCall
    /\ cycleSteps = <<>>

NunchuckOnce ==
    /\ pc = "nunchuck"
    /\ NunchuckLoop(AllReads)
    /\ pc' = "returned"
    /\ UNCHANGED <<roundingMap, subscribed, motorXY, returnValue,
                   laserRangeMilliMeter, leftMotors, rightMotors, Duty,
                   Direction, published, issued, message, delivered,
                   earlier, cycleSteps>>

NextNunchuck == NunchuckOnce

SpecNunchuck == InitNunchuck /\ [][NextNunchuck]_vars

(***************************************************************************)
(* MQTT::Loop one field access at a time, called again and again, with     *)
(* MQTT::callback running to completion in its own execution context       *)
(* between any two of the accesses.  Nothing in the code holds the         *)
(* callback back: the buffer is declared volatile and nothing more.        *)
(* delivered collects the triples the callbacks wrote, at most             *)
(* MaxDelivered different ones.                                            *)
(***************************************************************************)
MaxDelivered == 2

AsyncPcs ==
    {"readFromMQTT", "readX", "readY", "clearX", "clearY", "clearFromMQTT",
     "return", "returned"}

InitAsync ==
    /\ pc = "readFromMQTT"
    /\ roundingMap = FALSE
    /\ subscribed = TRUE
    /\ motorXY = NoXY
    /\ returnValue = NoXY
    /\ loopMotorXY = NoXY
    /\ nunchuck_buf = <<0, 0>>
    /\ laserRangeMilliMeter = 0
    /\ leftMotors = ReadyShield(PowerUpShield)
    /\ rightMotors = ReadyShield(PowerUpShield)
    /\ Duty = 0
    /\ Direction = ""
    /\ published = <<>>
    /\ issued = <<>>
    /\ cnt = 0
    /\ message = NoMessage
    /\ delivered = {}
    /\ earlier = NoCall
    /\ cycleSteps = <<>>

AsyncFrame ==
    UNCHANGED <<roundingMap, subscribed, nunchuck_buf, laserRangeMilliMeter,
                leftMotors, rightMotors, Duty, Direction, published, issued,
                cnt, earlier, cycleSteps>>

callbackAsync ==
    /\ subscribed
    /\ pc \in AsyncPcs
    /\ \E msg \in Messages :
          /\ motorXY' = CallbackResult(msg, motorXY)
          /\ delivered' = IF msg.topic = "control" /\ msg.hasX
                          THEN delivered \cup {CallbackResult(msg, motorXY)}
                          ELSE delivered
    /\ Cardinality(delivered') <= MaxDelivered
    /\ UNCHANGED <<pc, returnValue, loopMotorXY, message>>
    /\ AsyncFrame

LoopReadFromMQTT ==
    /\ pc = "readFromMQTT"
    /\ returnValue' = [returnValue EXCEPT !.fromMQTT = motorXY.fromMQTT]
    /\ pc' = "readX"
    /\ UNCHANGED <<motorXY, loopMotorXY, message, delivered>>
    /\ AsyncFrame

LoopReadX ==
    /\ pc = "readX"
    /\ returnValue' = [returnValue EXCEPT !.motor_x = motorXY.motor_x]
    /\ pc' = "readY"
    /\ UNCHANGED <<motorXY, loopMotorXY, message, delivered>>
    /\ AsyncFrame

LoopReadY ==
    /\ pc = "readY"
    /\ returnValue' = [returnValue EXCEPT !.motor_y = motorXY.motor_y]
    /\ pc' = "clearX"
    /\ UNCHANGED <<motorXY, loopMotorXY, message, delivered>>
    /\ AsyncFrame

LoopClearX ==
    /\ pc = "clearX"
    /\ motorXY' = [motorXY EXCEPT !.motor_x = 0]
    /\ pc' = "clearY"
    /\ UNCHANGED <<returnValue, loopMotorXY, message, delivered>>
    /\ AsyncFrame

LoopClearY ==
    /\ pc = "clearY"
    /\ motorXY' = [motorXY EXCEPT !.motor_y = 0]
    /\ pc' = "clearFromMQTT"
    /\ UNCHANGED <<returnValue, loopMotorXY, message, delivered>>
    /\ AsyncFrame

LoopClearFromMQTT ==
    /\ pc = "clearFromMQTT"
    /\ motorXY' = [motorXY EXCEPT !.fromMQTT = FALSE]
    /\ pc' = "return"
    /\ UNCHANGED <<returnValue, loopMotorXY, message, delivered>>
    /\ AsyncFrame

LoopReturn ==
    /\ pc = "return"
    /\ loopMotorXY' = returnValue
    /\ pc' = "returned"
    /\ UNCHANGED <<motorXY, returnValue, message, delivered>>
    /\ AsyncFrame

LoopCalledAgain ==
    /\ pc = "returned"
    /\ pc' = "readFromMQTT"
    /\ UNCHANGED <<motorXY, returnValue, loopMotorXY, message, delivered>>
    /\ AsyncFrame

NextAsync ==
    \/ callbackAsync
    \/ LoopReadFromMQTT
    \/ LoopReadX
    \/ LoopReadY
    \/ LoopClearX
    \/ LoopClearY
    \/ LoopClearFromMQTT
    \/ LoopReturn
    \/ LoopCalledAgain

SpecAsync == InitAsync /\ [][NextAsync]_vars

(***************************************************************************)
(* The control loop with the callbacks of a cycle running, each to         *)
(* completion, before the cycle's call of MQTT::Loop and none during it.   *)
(* message is the last well-formed message of the cycle and delivered the  *)
(* buffer values the cycle's callbacks wrote, at most MaxDelivered         *)
(* different ones.                                                         *)
(***************************************************************************)
InitSlot ==
    /\ pc = "mqttLoop"
    /\ roundingMap \in BOOLEAN
    /\ subscribed = TRUE
    /\ motorXY = NoXY
    /\ returnValue = NoXY
    /\ loopMotorXY = NoXY
    /\ nunchuck_buf = <<0, 0>>
    /\ laserRangeMilliMeter = 0
    /\ leftMotors = ReadyShield(PowerUpShield)
    /\ rightMotors = ReadyShield(PowerUpShield)
    /\ Duty = 0
    /\ Direction = ""
    /\ published = <<>>
    /\ issued = <<>>
    /\ cnt = 0
    /\ message = NoMessage
    /\ delivered = {}
    /\ earlier = NoCall
    /\ cycleSteps = <<>>

callbackBetween ==
    /\ subscribed
    /\ pc = "mqttLoop"
    /\ \E msg \in Messages :
          /\ motorXY' = CallbackResult(msg, motorXY)
          /\ message' = IF msg.topic = "control" /\ msg.hasX
                        THEN msg
                        ELSE message
          /\ delivered' = IF msg.topic = "control" /\ msg.hasX
                          THEN delivered \cup {CallbackResult(msg, motorXY)}
                          ELSE delivered
    /\ Cardinality(delivered') <= MaxDelivered
    /\ UNCHANGED <<pc, roundingMap, subscribed, returnValue, loopMotorXY,
                   nunchuck_buf, laserRangeMilliMeter, leftMotors,
                   rightMotors, Duty, Direction, published, issued, cnt,
                   earlier, cycleSteps>>

NextSlot ==
    \/ callbackBetween
    \/ LoopMqtt
    \/ LoopNunchuck
    \/ LoopLaser
    \/ LoopSetMapped
    \/ LoopDelay

SpecSlot == InitSlot /\ [][NextSlot]_vars

(***************************************************************************)
(* A call of setMapped that has returned, as it is remembered when a       *)
(* later call is compared with it: its arguments, the Duty it logged, the  *)
(* commands and the label it sent and the registers it left.               *)
(***************************************************************************)
CallRecord ==
    [valid |-> TRUE, between |-> FALSE,
     mapx |-> loopMotorXY.motor_x, mapy |-> loopMotorXY.motor_y,
     range |-> laserRangeMilliMeter, Duty |-> Duty,
     issued |-> issued, published |-> published,
     left |-> [duty |-> leftMotors.duty, status |-> leftMotors.status],
     right |-> [duty |-> rightMotors.duty, status |-> rightMotors.status]]

(***************************************************************************)
(* Motors::setMapped called again and again going forward (NORTH), each    *)
(* call with a new range reading around the ramp zone, at most MaxStepMM   *)
(* nearer or farther than the reading before; the call before is           *)
(* remembered.                                                             *)
(***************************************************************************)
MaxStepMM == 60

RampInputs == (DeadzoneMM - 1) .. MaxRangeMM

NextReadings(d) == {e \in RampInputs : e - d <= MaxStepMM /\ d - e <= MaxStepMM}

InitRamp ==
    /\ pc = "setMapped"
    /\ roundingMap \in BOOLEAN
    /\ subscribed = FALSE
    /\ motorXY = NoXY
    /\ returnValue = NoXY
    /\ loopMotorXY = [motor_x |-> 0, motor_y |-> 1, fromMQTT |-> FALSE]
    /\ nunchuck_buf = <<0, 0>>
    /\ laserRangeMilliMeter \in RampInputs
    /\ leftMotors = ReadyShield(PowerUpShield)
    /\ rightMotors = ReadyShield(PowerUpShield)
    /\ Duty = 0
    /\ Direction = ""
    /\ published = <<>>
    /\ issued = <<>>
    /\ cnt = 0
    /\ message = NoMessage
    /\ delivered = {}
    /\ earlier = NoCall
    /\ cycleSteps = <<>>

RampAgain ==
    /\ pc = "delay"
    /\ earlier' = CallRecord
    /\ laserRangeMilliMeter' \in NextReadings(laserRangeMilliMeter)
    /\ Duty' = 0
    /\ Direction' = ""
    /\ published' = <<>>
    /\ issued' = <<>>
    /\ cycleSteps' = <<>>
    /\ pc' = "setMapped"
    /\ UNCHANGED <<roundingMap, subscribed, motorXY, returnValue, loopMotorXY,
                   nunchuck_buf, leftMotors, rightMotors, cnt, message,
                   delivered>>

NextRamp ==
    \/ LoopSetMapped
    \/ RampAgain

SpecRamp == InitRamp /\ [][NextRamp]_vars

(***************************************************************************)
(* Motors::setMapped called again and again with any arguments.  One of    *)
(* the calls made so far is remembered, and whether others followed it.    *)
(***************************************************************************)
UnitPairs == {-1, 0, 1} \X {-1, 0, 1}

InitTwice ==
    /\ pc = "setMapped"
    /\ roundingMap \in BOOLEAN
    /\ subscribed = FALSE
    /\ motorXY = NoXY
    /\ returnValue = NoXY
    /\ \E xy \in UnitPairs :
          loopMotorXY = [motor_x |-> xy[1], motor_y |-> xy[2],
                         fromMQTT |-> FALSE]
    /\ nunchuck_buf = <<0, 0>>
    /\ laserRangeMilliMeter \in LaserSamples
    /\ leftMotors = ReadyShield(PowerUpShield)
    /\ rightMotors = ReadyShield(PowerUpShield)
    /\ Duty = 0
    /\ Direction = ""
    /\ published = <<>>
    /\ issued = <<>>
    /\ cnt = 0
    /\ message = NoMessage
    /\ delivered = {}
    /\ earlier = NoCall
    /\ cycleSteps = <<>>

CallAgain ==
    /\ pc = "delay"
    /\ \/ earlier' = CallRecord
       \/ /\ earlier.valid
          /\ earlier' = [earlier EXCEPT !.between = TRUE]
    /\ \E xy \in UnitPairs :
          loopMotorXY' = [motor_x |-> xy[1], motor_y |-> xy[2],
                          fromMQTT |-> FALSE]
    /\ laserRangeMilliMeter' \in LaserSamples
    /\ Duty' = 0
    /\ Direction' = ""
    /\ published' = <<>>
    /\ issued' = <<>>
    /\ cycleSteps' = <<>>
    /\ pc' = "setMapped"
    /\ UNCHANGED <<roundingMap, subscribed, motorXY, returnValue,
                   nunchuck_buf, leftMotors, rightMotors, cnt, message,
                   delivered>>

NextTwice ==
    \/ LoopSetMapped
    \/ CallAgain

SpecTwice == InitTwice /\ [][NextTwice]_vars

(***************************************************************************)
(* Properties.  A call of setMapped has just returned when pc = "delay":   *)
(* loopMotorXY and laserRangeMilliMeter still hold its arguments, Duty and *)
(* Direction its locals, and the shields the registers it left.            *)
(***************************************************************************)
AfterCall == pc = "delay"

ArgPair == <<loopMotorXY.motor_x, loopMotorXY.motor_y>>

BothDuty(l, r) == leftMotors.duty = l /\ rightMotors.duty = r

BothStatus(l, r) == leftMotors.status = l /\ rightMotors.status = r

\* C1: in every control cycle the pair handed to setMapped is the pair
\* MQTT::Loop returned when that pair has fromMQTT = TRUE, (0,0) included,
\* and the nunchuck's pair only when MQTT::Loop returned fromMQTT = FALSE.
C1_RemotePreemptsLocal ==
    pc \in {"laser", "setMapped", "delay"} =>
        IF returnValue.fromMQTT
        THEN ArgPair = <<returnValue.motor_x, returnValue.motor_y>>
        ELSE /\ loopMotorXY = NunchuckXY(nunchuck_buf)
             /\ loopMotorXY.fromMQTT = FALSE

\* C1 witness: the remote pair (0,0) was returned while the nunchuck holds
\* full right deflection, and the cycle ended in the STOP branch.
C1_Witness ==
    /\ AfterCall
    /\ returnValue = [motor_x |-> 0, motor_y |-> 0, fromMQTT |-> TRUE]
    /\ nunchuck_buf = <<255, 128>>
    /\ ArgPair = <<0, 0>>
    /\ Direction = "STOP"

\* C2: when the range source reports its failure sentinel INT_MAX, the
\* range-derived Duty is not maxDuty and a class limited by the ceiling
\* (NORTH) commands no wheel at maxDuty.
C2_NoFullSpeedOnRangeFailure ==
    (AfterCall /\ laserRangeMilliMeter = INT_MAX) =>
        /\ Duty # maxDuty
        /\ Direction = "NORTH" =>
              (leftMotors.duty # maxDuty /\ rightMotors.duty # maxDuty)

\* C3: when the range reading is below DeadzoneMM, setMapped leaves duty 0
\* on both drivers for every intent pair of {-1,0,1}^2.
C3_DeadzoneStopsEveryDirection ==
    (/\ AfterCall
     /\ laserRangeMilliMeter < DeadzoneMM
     /\ loopMotorXY.motor_x \in {-1, 0, 1}
     /\ loopMotorXY.motor_y \in {-1, 0, 1}) => BothDuty(0, 0)

\* C4: NORTH commands both wheels at the range-derived Duty with spin CW,
\* SOUTH commands both wheels at the range-derived Duty with spin CCW.
C4_StraightAtCeiling ==
    AfterCall =>
        /\ ArgPair = <<0, 1>> =>
              (BothDuty(Duty, Duty) /\ BothStatus("CW", "CW"))
        /\ ArgPair = <<0, -1>> =>
              (BothDuty(Duty, Duty) /\ BothStatus("CCW", "CCW"))

\* Half of a duty, rounded either way.
HalfOf(d) == {CDiv(d, 2), CDiv(d + 1, 2)}

\* C5: the diagonal classes command the range-derived Duty on the outer
\* wheel and half of it on the inner wheel (left outer for the EAST
\* diagonals, right outer for the WEST diagonals), CW for NORTH_*, CCW for
\* SOUTH_*.
C5_DiagonalAtCeiling ==
    AfterCall =>
        /\ ArgPair = <<1, 1>> =>
              /\ leftMotors.duty = Duty /\ rightMotors.duty \in HalfOf(Duty)
              /\ BothStatus("CW", "CW")
        /\ ArgPair = <<1, -1>> =>
              /\ leftMotors.duty = Duty /\ rightMotors.duty \in HalfOf(Duty)
              /\ BothStatus("CCW", "CCW")
        /\ ArgPair = <<-1, -1>> =>
              /\ leftMotors.duty \in HalfOf(Duty) /\ rightMotors.duty = Duty
              /\ BothStatus("CCW", "CCW")
        /\ ArgPair = <<-1, 1>> =>
              /\ leftMotors.duty \in HalfOf(Duty) /\ rightMotors.duty = Duty
              /\ BothStatus("CW", "CW")

\* C6: for every range reading, EAST commands both drivers at
\* maxRotationDuty with left CW and right CCW, and WEST commands both at
\* maxRotationDuty with left CCW and right CW.
C6_RotationIgnoresRange ==
    AfterCall =>
        /\ ArgPair = <<1, 0>> =>
              /\ BothDuty(maxRotationDuty, maxRotationDuty)
              /\ BothStatus("CW", "CCW")
        /\ ArgPair = <<-1, 0>> =>
              /\ BothDuty(maxRotationDuty, maxRotationDuty)
              /\ BothStatus("CCW", "CW")

\* C6 witness: EAST inside the deadzone, where the range-derived Duty is 0
\* and the wheels still turn at maxRotationDuty.
C6_Witness ==
    /\ AfterCall
    /\ ArgPair = <<1, 0>>
    /\ laserRangeMilliMeter < DeadzoneMM
    /\ Duty = 0
    /\ BothDuty(maxRotationDuty, maxRotationDuty)
    /\ BothStatus("CW", "CCW")

\* C7 as stated: a cycle whose class is STOP leaves both drivers with
\* duty 0 and status STOP, whatever the earlier cycles were.
C7_StopZeroesDuty ==
    (AfterCall /\ Direction = "STOP") =>
        (BothDuty(0, 0) /\ BothStatus("STOP", "STOP"))

\* C7 amended: a call of setMapped that takes the STOP branch sets the
\* status of both drivers to STOP and leaves the duty register of each
\* driver at the value it had before the call.
C7_StopKeepsDuty ==
    [][(pc = "setMapped" /\ pc' = "delay" /\ Direction' = "STOP") =>
          /\ leftMotors'.status = "STOP"
          /\ rightMotors'.status = "STOP"
          /\ leftMotors'.duty = leftMotors.duty
          /\ rightMotors'.duty = rightMotors.duty]_vars

\* C7 witness: a remote (0,0) stops the car after a NORTH EAST cycle; both
\* drivers are in STOP and still hold the duties of that earlier cycle.
C7_Witness ==
    /\ AfterCall
    /\ returnValue.fromMQTT
    /\ ArgPair = <<0, 0>>
    /\ Direction = "STOP"
    /\ BothStatus("STOP", "STOP")
    /\ BothDuty(maxDuty, maxTurnDuty)

\* The direction table of the design: pair -> class, STOP otherwise.
DirectionTable(x, y) ==
    CASE <<x, y>> = <<0, 1>> -> "NORTH"
      [] <<x, y>> = <<1, 1>> -> "NORTH EAST"
      [] <<x, y>> = <<1, 0>> -> "EAST"
      [] <<x, y>> = <<1, -1>> -> "SOUTH EAST"
      [] <<x, y>> = <<0, -1>> -> "SOUTH"
      [] <<x, y>> = <<-1, -1>> -> "SOUTH WEST"
      [] <<x, y>> = <<-1, 0>> -> "WEST"
      [] <<x, y>> = <<-1, 1>> -> "NORTH WEST"
      [] OTHER -> "STOP"

\* C8: the chain selects exactly the class of the table for every pair of
\* {-1,0,1}^2 and STOP for every other integer pair.
C8_ClassificationTotal ==
    AfterCall =>
        Direction = DirectionTable(loopMotorXY.motor_x, loopMotorXY.motor_y)

\* C8 witness: a pair outside {-1,0,1}^2 with a component that alone would
\* match a direction falls through to STOP.
C8_Witness ==
    /\ AfterCall
    /\ ArgPair = <<-1, 2>>
    /\ Direction = "STOP"
    /\ BothStatus("STOP", "STOP")

\* C9: the Duty computed by setMapped is maxDuty for every reading above
\* SafeDistanceMM, 0 for every reading below DeadzoneMM, minimumDuty at
\* DeadzoneMM and maxDuty at SafeDistanceMM.
C9_ThreeZoneBoundaries ==
    AfterCall =>
        /\ laserRangeMilliMeter > SafeDistanceMM => Duty = maxDuty
        /\ laserRangeMilliMeter < DeadzoneMM => Duty = 0
        /\ laserRangeMilliMeter = DeadzoneMM => Duty = minimumDuty
        /\ laserRangeMilliMeter = SafeDistanceMM => Duty = maxDuty

\* C9 witness: the lower end of the ramp.
C9_Witness ==
    /\ AfterCall
    /\ laserRangeMilliMeter = DeadzoneMM
    /\ Duty = minimumDuty

\* The exact interpolation of d on the ramp is
\* minimumDuty + RampNum(d) / RampDen.
RampNum(d) == (d - DeadzoneMM) * (maxDuty - minimumDuty)

RampDen == SafeDistanceMM - DeadzoneMM

InRamp == laserRangeMilliMeter >= DeadzoneMM /\ laserRangeMilliMeter <= SafeDistanceMM

C11_RampMonotone ==
    (/\ AfterCall
     /\ earlier.valid
     /\ InRamp
     /\ earlier.range >= DeadzoneMM
     /\ earlier.range <= SafeDistanceMM) =>
        /\ earlier.range < laserRangeMilliMeter => earlier.Duty <= Duty
        /\ laserRangeMilliMeter < earlier.range => Duty <= earlier.Duty

\* C11 witness: a call at the upper end of the ramp after a call with a
\* nearer reading inside the ramp, with a strictly larger Duty.
C11_Witness ==
    /\ AfterCall
    /\ earlier.valid
    /\ earlier.range >= DeadzoneMM
    /\ earlier.range < laserRangeMilliMeter
    /\ laserRangeMilliMeter = SafeDistanceMM
    /\ earlier.Duty < Duty
    /\ Duty = maxDuty
    /\ BothDuty(maxDuty, maxDuty)

\* C12: for every range reading (negative, 0, the ramp zone, beyond it and
\* INT_MAX) the Duty computed by setMapped satisfies 0 <= Duty <= maxDuty.
C12_DutyWithinCeiling ==
    AfterCall => (Duty >= 0 /\ Duty <= maxDuty)

\* C12 witness: a call with the reading INT_MAX has computed Duty = maxDuty.
C12_Witness ==
    /\ AfterCall
    /\ laserRangeMilliMeter = INT_MAX
    /\ Duty = maxDuty

\* C13: in a cycle with no remote message since the previous MQTT::Loop and
\* no data from the joystick (nunchuck_get_data read fewer than 5 bytes),
\* the pair passed to setMapped is (0,0) and both drivers are set to STOP.
C13_StopOnLossOfInput ==
    (AfterCall /\ ~returnValue.fromMQTT /\ cnt < 5) =>
        (ArgPair = <<0, 0>> /\ BothStatus("STOP", "STOP"))

\* C20: each call of setMapped publishes exactly one label, the name of the
\* selected class, when the class is one of the eight directions, and
\* publishes nothing when the class is STOP.
C20_TelemetryUnlessStop ==
    AfterCall =>
        LET class == DirectionTable(loopMotorXY.motor_x, loopMotorXY.motor_y)
        IN  /\ class # "STOP" => published = <<class>>
            /\ class = "STOP" => published = <<>>

\* C20 witness: a NORTH WEST call has published the one label "NORTH WEST".
C20_Witness ==
    /\ AfterCall
    /\ ArgPair = <<-1, 1>>
    /\ published = <<"NORTH WEST">>

WellFormed(msg) == msg.topic = "control" /\ msg.hasX

\* C17: a message without the field left_x_mapped, or on a topic other than
\* the control topic, leaves motor_x, motor_y and fromMQTT of the remote
\* buffer as they were.
C17_MalformedIgnored ==
    [][(pc = "callback" /\ pc' = "returned" /\ ~WellFormed(message)) =>
           (/\ motorXY'.motor_x = motorXY.motor_x
            /\ motorXY'.motor_y = motorXY.motor_y
            /\ motorXY'.fromMQTT = motorXY.fromMQTT)]_vars

\* C17 witness: the callback has returned from a control message without
\* left_x_mapped and the buffer still holds a valid intent.
C17_Witness ==
    /\ pc = "returned"
    /\ message.topic = "control"
    /\ ~message.hasX
    /\ message.x = MaxStick
    /\ motorXY = [motor_x |-> -1, motor_y |-> 1, fromMQTT |-> TRUE]

\* C18: for a well-formed control message with stick values (h, v) the
\* callback stores fromMQTT = true, motor_x = -1 if h < -10, 1 if h > 10,
\* else 0, and motor_y = 1 if v < -10, -1 if v > 10, else 0.
C18_DeadBandAndSigns ==
    (pc = "returned" /\ WellFormed(message)) =>
        /\ motorXY.fromMQTT = TRUE
        /\ motorXY.motor_x = (IF message.x < -10 THEN -1
                              ELSE IF message.x > 10 THEN 1 ELSE 0)
        /\ motorXY.motor_y = (IF message.y < -10 THEN 1
                              ELSE IF message.y > 10 THEN -1 ELSE 0)

\* C18 witness: h = 10 is inside the dead-band and v = -11 is outside it.
C18_Witness ==
    /\ pc = "returned"
    /\ WellFormed(message)
    /\ message.x = 10
    /\ message.y = -11
    /\ motorXY = [motor_x |-> 0, motor_y |-> 1, fromMQTT |-> TRUE]

AfterNunchuck == pc = "returned" /\ cnt > 0

Midpoints == {127, 128}

MidpointSplit(j, m) == IF j < m THEN -1 ELSE IF j = m THEN 0 ELSE 1

\* what map(j, 0, 255, -1, 1) gives on the rounding and on the truncating build
Zone(j) ==
    IF roundingMap
    THEN IF j <= 63 THEN -1 ELSE IF j <= 191 THEN 0 ELSE 1
    ELSE IF j <= 127 THEN -1 ELSE IF j <= 254 THEN 0 ELSE 1

\* C19 as stated: for every joyx, joyy in 0..255 Nunchuck::Loop returns
\* fromMQTT = false and, on each axis, -1 below the midpoint, 0 at the
\* midpoint and 1 above it.
C19_MidpointSplit ==
    AfterNunchuck =>
        \E m \in Midpoints :
            /\ loopMotorXY.fromMQTT = FALSE
            /\ loopMotorXY.motor_x = MidpointSplit(nunchuck_buf[1], m)
            /\ loopMotorXY.motor_y = MidpointSplit(nunchuck_buf[2], m)

\* C19 amended: for every joyx, joyy in 0..255 Nunchuck::Loop returns
\* fromMQTT = false and, on each axis, a value in {-1,0,1} that is
\* non-decreasing in the sample: -1 / 0 / 1 for 0..63 / 64..191 / 192..255
\* when map() rounds and for 0..127 / 128..254 / 255 when it truncates.
C19_ThresholdSplit ==
    AfterNunchuck =>
        LET jx == nunchuck_buf[1]
            jy == nunchuck_buf[2]
        IN  /\ loopMotorXY.fromMQTT = FALSE
            /\ loopMotorXY.motor_x \in {-1, 0, 1}
            /\ loopMotorXY.motor_y \in {-1, 0, 1}
            /\ loopMotorXY.motor_x = Zone(jx)
            /\ loopMotorXY.motor_y = Zone(jy)
            /\ jx > 0 =>
                 NunchuckXY(<<jx - 1, jy>>).motor_x <= loopMotorXY.motor_x
            /\ jy > 0 =>
                 NunchuckXY(<<jx, jy - 1>>).motor_y <= loopMotorXY.motor_y

\* C19 witness: a sample just above the middle of the byte range on x gives
\* 0 and the top sample on y gives 1.
C19_Witness ==
    /\ AfterNunchuck
    /\ nunchuck_buf = <<129, JoyMax>>
    /\ loopMotorXY = [motor_x |-> 0, motor_y |-> 1, fromMQTT |-> FALSE]

\* the call just made has the arguments of the remembered call
SameArguments ==
    /\ AfterCall
    /\ earlier.valid
    /\ earlier.mapx = loopMotorXY.motor_x
    /\ earlier.mapy = loopMotorXY.motor_y
    /\ earlier.range = laserRangeMilliMeter

SameStatus ==
    /\ earlier.left.status = leftMotors.status
    /\ earlier.right.status = rightMotors.status

SameDuty ==
    /\ earlier.left.duty = leftMotors.duty
    /\ earlier.right.duty = rightMotors.duty

\* C15 as stated: two cycles with the same inputs leave the left and right
\* drivers with the same duty and the same status, whatever the cycles
\* before them were.
C15_NoCarryOver ==
    SameArguments => (SameStatus /\ SameDuty)

\* C15 amended: two cycles with the same inputs leave both drivers with the
\* same status, and with the same duty when their class is one of the
\* eight directions (a STOP cycle does not write the duty registers).
C15_NoCarryOverButStopDuty ==
    SameArguments =>
        /\ SameStatus
        /\ DirectionTable(earlier.mapx, earlier.mapy) # "STOP" => SameDuty

\* C15 witness: two STOP cycles with the same inputs, the first right after
\* power-up and the second after other cycles: both drivers are stopped,
\* with duty 0 after the first and maxDuty after the second.
C15_Witness ==
    /\ SameArguments
    /\ earlier.between
    /\ ArgPair = <<0, 0>>
    /\ SameStatus
    /\ BothStatus("STOP", "STOP")
    /\ earlier.left.duty = 0
    /\ earlier.right.duty = 0
    /\ BothDuty(maxDuty, maxDuty)

\* C16: two calls of setMapped with identical (mapx, mapy, range) issue the
\* identical sequence of changeDuty / changeStatus commands and the
\* identical telemetry label, whatever calls were made in between.
C16_MappingIsPure ==
    SameArguments =>
        /\ earlier.issued = issued
        /\ earlier.published = published

\* C16 witness: two STOP calls with the same arguments and other calls in
\* between, the first finding the drivers stopped and the second finding
\* them running; both issued the same two changeStatus commands.
C16_Witness ==
    /\ SameArguments
    /\ earlier.between
    /\ ArgPair = <<0, 0>>
    /\ earlier.left.duty = 0
    /\ leftMotors.duty = maxTurnDuty
    /\ Len(issued) = 2
    /\ earlier.issued = issued
    /\ published = <<>>

\* C14: under every interleaving of MQTT::callback with the field accesses
\* of MQTT::Loop, the triple MQTT::Loop returns is the cleared triple
\* (0,0,false) or the triple one callback invocation wrote.
C14_NoTornRead ==
    pc = "returned" => loopMotorXY \in ({NoXY} \cup delivered)

ShieldReady(m) == m.PRODUCT_ID = PRODUCT_ID_I2C_MOTOR

Commanded(m, n) ==
    \/ m.freq # n.freq
    \/ m.duty # n.duty
    \/ m.status # n.status

\* C21: no changeFreq, changeDuty or changeStatus command reaches either
\* driver, and no control cycle of loop() starts, before both drivers have
\* reported PRODUCT_ID = PRODUCT_ID_I2C_MOTOR in Motors::Begin.
C21_ReadyBeforeCommands ==
    [][(\/ Commanded(leftMotors, leftMotors')
        \/ Commanded(rightMotors, rightMotors')
        \/ issued' # issued
        \/ pc' \in LoopPcs)
       => (ShieldReady(leftMotors) /\ ShieldReady(rightMotors))]_vars

\* C21 witness: a control cycle has commanded the drivers, both of which
\* report the product id.
C21_Witness ==
    /\ AfterCall
    /\ Len(issued) = 4
    /\ ShieldReady(leftMotors)
    /\ ShieldReady(rightMotors)
    /\ leftMotors.freq = PwmFreq
    /\ BothStatus("CW", "CW")

\* C22: Motors::Begin terminates, also with a driver that never reports the
\* expected product id, so that setup() always completes and loop() starts.
C22_SetupCompletes ==
    <>(pc \in LoopPcs)

\* position of the first occurrence of a step in the cycle so far, 0 if
\* the step has not run
StepAt(name) ==
    IF \E i \in 1..Len(cycleSteps) : cycleSteps[i] = name
    THEN CHOOSE i \in 1..Len(cycleSteps) :
            /\ cycleSteps[i] = name
            /\ \A j \in 1..(i - 1) : cycleSteps[j] # name
    ELSE 0

CycleDone == pc = "delay" /\ Len(cycleSteps) > 1

\* C23 as stated: in every control cycle the range is sampled before the
\* remote buffer is read-and-cleared and before the local source is
\* polled, and setMapped comes last.
C23_RangeSampledFirst ==
    CycleDone =>
        /\ StepAt("laser.Loop") = 1
        /\ StepAt("laser.Loop") < StepAt("mqtt.Loop")
        /\ StepAt("nunchuck.Loop") # 0 =>
              StepAt("laser.Loop") < StepAt("nunchuck.Loop")
        /\ StepAt("setMapped") = Len(cycleSteps)

\* C23 amended: in every control cycle the remote buffer is read-and-cleared
\* first, then the local source is polled if the remote pair is not marked
\* fromMQTT, then the range is sampled, and setMapped comes last.
C23_ArbitrationThenRange ==
    CycleDone =>
        \/ /\ returnValue.fromMQTT
           /\ cycleSteps = <<"mqtt.Loop", "laser.Loop", "setMapped">>
        \/ /\ ~returnValue.fromMQTT
           /\ cycleSteps =
                 <<"mqtt.Loop", "nunchuck.Loop", "laser.Loop", "setMapped">>

\* C23 witness: a cycle without remote input has run its four steps.
C23_Witness ==
    /\ CycleDone
    /\ ~returnValue.fromMQTT
    /\ Len(cycleSteps) = 4
    /\ cycleSteps[3] = "laser.Loop"
    /\ laserRangeMilliMeter = 180

\* MQTT::Loop has returned in this cycle
AfterLoop == pc \in {"fallback", "laser", "setMapped", "delay"}

AfterFallback == pc \in {"laser", "setMapped", "delay"}

\* C24: a call of MQTT::Loop with no callback during it leaves the buffer at
\* (0,0,false), and a cycle with no message delivered since the previous
\* MQTT::Loop sees fromMQTT = false and falls back to the local source.
C24_NotBufferedAcrossCycles ==
    /\ AfterLoop => motorXY = NoXY
    /\ (AfterLoop /\ message = NoMessage) => returnValue = NoXY
    /\ (AfterFallback /\ message = NoMessage) =>
          /\ cycleSteps[2] = "nunchuck.Loop"
          /\ loopMotorXY.fromMQTT = FALSE

\* C24 witness: a cycle without a message has fallen back to the joystick
\* after an earlier cycle drove the car on a remote message.
C24_Witness ==
    /\ pc = "delay"
    /\ message = NoMessage
    /\ returnValue = NoXY
    /\ motorXY = NoXY
    /\ cycleSteps[2] = "nunchuck.Loop"
    /\ ArgPair = <<0, 0>>
    /\ BothStatus("STOP", "STOP")
    /\ BothDuty(maxRotationDuty, maxRotationDuty)

\* the triple the callback stores for a well-formed message
StoredFor(msg) ==
    [motor_x |-> IF msg.x < -10 THEN -1 ELSE IF msg.x > 10 THEN 1 ELSE 0,
     motor_y |-> IF msg.y < -10 THEN 1 ELSE IF msg.y > 10 THEN -1 ELSE 0,
     fromMQTT |-> TRUE]

\* C27: when several well-formed control messages are delivered between two
\* consecutive MQTT::Loop calls, the second call returns the pair of the
\* most recently delivered message with fromMQTT = true; no axis value of
\* an earlier message survives.
C27_LastWriterWins ==
    (AfterLoop /\ message # NoMessage) => returnValue = StoredFor(message)

\* C27 witness: two messages were delivered, the first deflected on both
\* axes and the last one centred on x; MQTT::Loop returned the last one.
C27_Witness ==
    /\ AfterLoop
    /\ Cardinality(delivered) = 2
    /\ [motor_x |-> 1, motor_y |-> 1, fromMQTT |-> TRUE] \in delivered
    /\ message.x = 0
    /\ message.y = 11
    /\ returnValue = [motor_x |-> 0, motor_y |-> -1, fromMQTT |-> TRUE]

\* the call commanded the driver on that side with a non-zero duty and a
\* status other than STOP
DrivenBy(cmds, side) ==
    /\ \E i \in 1..Len(cmds) :
          /\ cmds[i][1] = side
          /\ cmds[i][2] = "changeDuty"
          /\ cmds[i][3] > 0
    /\ \E i \in 1..Len(cmds) :
          /\ cmds[i][1] = side
          /\ cmds[i][2] = "changeStatus"
          /\ cmds[i][3] # "STOP"

\* C25: whenever setMapped publishes a label, the call has commanded at
\* least one driver with a non-zero duty and a non-STOP status; no label
\* is published for NORTH with a range reading below DeadzoneMM.
C25_LabelOnlyWhenMoving ==
    (AfterCall /\ published # <<>>) =>
        (DrivenBy(issued, "left") \/ DrivenBy(issued, "right"))

\* C26: a well-formed control message in the buffer is never erased by the
\* reset of MQTT::Loop without that call returning it with fromMQTT = true,
\* wherever the callback ran between the field accesses of the call.
C26_NoMessageErased ==
    [][(pc = "clearFromMQTT" /\ pc' = "return" /\ motorXY.fromMQTT) =>
           (returnValue.fromMQTT /\ returnValue \in delivered)]_vars

====
